---- MODULE Spec2Model ----
(***************************************************************************)
(* Model of src/audio_service.py: AudioService.capture_audio (WASAPI       *)
(* loopback capture into a wave file), AudioService.transcribe_audio and   *)
(* the Flask endpoints /capture_and_transcribe and /cleanup.               *)
(*                                                                         *)
(* One behaviour is one HTTP request served against one platform state,    *)
(* optionally followed by a /cleanup request.  The PortAudio callback      *)
(* thread is the action callback, interleaved with the main thread.        *)
(***************************************************************************)
EXTENDS Naturals, Integers, Sequences, FiniteSets, TLC

(* ---------------------------------------------------------------------- *)
(* Bounds and input sets                                                   *)
(* ---------------------------------------------------------------------- *)

\* Largest number of audio devices the platform exposes.
MaxDevices == 3

\* Largest number of frame buffers the platform delivers during one capture.
MaxFrames == 2

\* Device display names: a plain name, a name that contains it, an unrelated one.
Names == {"Speakers", "Speakers [Loopback]", "Headphones"}

\* (maxInputChannels, defaultSampleRate) pairs a loopback device can report.
LoopbackFormats == {<<1, 44100>>, <<2, 48000>>}

\* An output device that is no loopback source has no input channels.
OutputFormats == {<<0, 48000>>}

\* Requested durations in seconds: time.sleep rejects a negative one.
Durations == {-1, 1}

\* track_name of the request.
TrackName == "t1"

\* Python None for dictionaries and handles that do not exist yet.
None == [none |-> TRUE]

\* The records the platform can report for one device (index excluded).
DeviceRecords ==
  [ name : Names, isLoopbackDevice : {TRUE}, format : LoopbackFormats ]
    \cup [ name : Names, isLoopbackDevice : {FALSE}, format : OutputFormats ]

\* All device lists of 1..MaxDevices devices.
DeviceLists ==
  UNION { [1..n -> DeviceRecords] : n \in 1..MaxDevices }

VARIABLES
  devices,              \* platform: device list, position i holds index i-1
  defaultOutputDevice,  \* platform: wasapi_info["defaultOutputDevice"], -1 = none
  duration,             \* request: data["duration"]
  ep_pc,                \* position of the endpoint handler
  pc,                   \* position of capture_audio
  p_state,              \* the PyAudio instance p
  default_speakers,     \* local default_speakers of capture_audio
  scanned,              \* loopback devices pulled from the generator
  wave_file,            \* local wave_file (wave.Wave_write)
  stream,               \* the stream returned by p.open
  late_write,           \* a callback wrote to wave_file after it was closed
  disk,                 \* the output file on disk
  capture_result,       \* value returned by capture_audio
  raised,               \* an exception left capture_audio
  transcribe_calls,     \* number of calls of transcribe_audio
  transcribe_arg,       \* audio_file_path of the last call
  transcribe_result,    \* value returned by transcribe_audio
  response              \* HTTP response of the endpoint

vars ==
  << devices, defaultOutputDevice, duration, ep_pc, pc, p_state,
     default_speakers, scanned, wave_file, stream, late_write, disk,
     capture_result, raised, transcribe_calls, transcribe_arg,
     transcribe_result, response >>

platformVars == << devices, defaultOutputDevice, duration >>

transcribeVars == << transcribe_calls, transcribe_arg, transcribe_result >>

(* ---------------------------------------------------------------------- *)
(* Pure helpers                                                            *)
(* ---------------------------------------------------------------------- *)

\* filename = f"{track_name}.wav"
Filename(track_name) == track_name \o ".wav"

\* os.path.abspath(filename)
Abspath(filename) == "/cwd/" \o filename

\* p.get_device_info_by_index(i): the platform's record plus its index.
DeviceInfo(i) ==
  [ index |-> i,
    name |-> devices[i + 1].name,
    isLoopbackDevice |-> devices[i + 1].isLoopbackDevice,
    maxInputChannels |-> devices[i + 1].format[1],
    defaultSampleRate |-> devices[i + 1].format[2] ]

RECURSIVE AllDeviceInfo(_)
\* The device infos of indexes 0..n-1 in index order.
AllDeviceInfo(n) ==
  IF n = 0 THEN << >> ELSE Append(AllDeviceInfo(n - 1), DeviceInfo(n - 1))

IsLoopback(d) == d.isLoopbackDevice

\* p.get_loopback_device_info_generator(): the loopback devices in index order.
LoopbackDevices == SelectSeq(AllDeviceInfo(Len(devices)), IsLoopback)

RECURSIVE FindFrom(_, _, _)
\* Python's  needle in hay  on str, scanning the offsets left to right.
FindFrom(needle, hay, k) ==
  IF k + Len(needle) - 1 > Len(hay) THEN FALSE
  ELSE IF SubSeq(hay, k, k + Len(needle) - 1) = needle THEN TRUE
  ELSE FindFrom(needle, hay, k + 1)

\* needle in hay
StrIn(needle, hay) == FindFrom(needle, hay, 1)

\* if not default_speakers["isLoopbackDevice"]: without the flag the list is never scanned.
AlwaysScan(d) == TRUE

\* if not default_speakers["isLoopbackDevice"]:
NeedsScan(d) == ~d.isLoopbackDevice

RECURSIVE ScanLoop(_, _, _)
\* for loopback in generator: the first loopback whose name contains the
\* default name is taken (break); an exhausted generator runs the else clause.
ScanLoop(default, gen, k) ==
  IF k > Len(gen) THEN [found |-> FALSE, dev |-> default, consumed |-> Len(gen)]
  ELSE IF StrIn(default.name, gen[k].name)
       THEN [found |-> TRUE, dev |-> gen[k], consumed |-> k]
       ELSE ScanLoop(default, gen, k + 1)

RECURSIVE ScanLast(_, _, _, _)
\* The for loop with its break removed: every loopback is visited, the last match wins.
ScanLast(default, gen, k, best) ==
  IF k > Len(gen) THEN best
  ELSE IF StrIn(default.name, gen[k].name)
       THEN ScanLast(default, gen, k + 1, [found |-> TRUE, dev |-> gen[k], consumed |-> k])
       ELSE ScanLast(default, gen, k + 1, [best EXCEPT !.consumed = k])

\* The scan without the break statement.
ScanNoBreak(default, gen) ==
  ScanLast(default, gen, 1, [found |-> FALSE, dev |-> default, consumed |-> 0])

\* The scan without the else clause: an exhausted scan keeps the default device.
ScanNoElse(default, gen) ==
  [ScanLoop(default, gen, 1) EXCEPT !.found = TRUE]

\* The loopback scan of capture_audio, from the generator's first device.
ScanLoopbacks(default, gen) == ScanLoop(default, gen, 1)

\* Stream.__exit__ that forgets to close.
StreamLeftOpen(s) == s

\* Stream.__exit__ at the end of the with block: close the stream if it is open.
StreamExited(s) ==
  IF s # None /\ s.state = "open" THEN [s EXCEPT !.state = "closed"] ELSE s

\* PyAudio.__exit__: terminate the instance if the with block was entered.
Terminated(ps) == IF ps = "live" THEN "terminated" ELSE ps

(* ---------------------------------------------------------------------- *)
(* Initial state                                                           *)
(* ---------------------------------------------------------------------- *)

Init ==
  /\ devices \in DeviceLists
  /\ defaultOutputDevice \in -1 .. (Len(devices) - 1)
  /\ duration \in Durations
  /\ ep_pc = "idle"
  /\ pc = "idle"
  /\ p_state = "none"
  /\ default_speakers = None
  /\ scanned = 0
  /\ wave_file = None
  /\ stream = None
  /\ late_write = FALSE
  /\ disk = "absent"
  /\ capture_result = None
  /\ raised = FALSE
  /\ transcribe_calls = 0
  /\ transcribe_arg = ""
  /\ transcribe_result = None
  /\ response = None

(* ---------------------------------------------------------------------- *)
(* capture_audio                                                           *)
(* ---------------------------------------------------------------------- *)

\* An except clause that lets the exception through to the caller.
ExceptReraise(e) ==
  /\ raised' = TRUE
  /\ pc' = "returned"
  /\ UNCHANGED capture_result

\* except Exception as e: return {"error": f"Audio capture failed: {str(e)}"}
ExceptException(e) ==
  /\ capture_result' = [error |-> "Audio capture failed: " \o e]
  /\ pc' = "returned"
  /\ UNCHANGED raised

\* with pyaudio.PyAudio() as p: PortAudio initialises or raises.
PyAudioInit ==
  /\ pc = "pyaudio"
  /\ \E ok \in BOOLEAN :
       IF ok
       THEN /\ p_state' = "live"
            /\ pc' = "wasapi"
            /\ UNCHANGED << capture_result, raised >>
       ELSE /\ ExceptException("PortAudio initialization failed")
            /\ UNCHANGED p_state
  /\ UNCHANGED << platformVars, ep_pc, default_speakers, scanned, wave_file,
                  stream, late_write, disk, transcribeVars, response >>

\* wasapi_info = p.get_host_api_info_by_type(pyaudio.paWASAPI), OSError handled.
GetWasapiInfo ==
  /\ pc = "wasapi"
  /\ \E available \in BOOLEAN :
       IF available
       THEN /\ pc' = "default"
            /\ UNCHANGED << capture_result, p_state >>
       ELSE /\ capture_result' = [error |-> "WASAPI is not available on the system"]
            /\ p_state' = Terminated(p_state)
            /\ pc' = "returned"
  /\ UNCHANGED << platformVars, ep_pc, default_speakers, scanned, wave_file,
                  stream, late_write, disk, raised, transcribeVars, response >>

\* default_speakers = p.get_device_info_by_index(wasapi_info["defaultOutputDevice"])
GetDefaultSpeakers ==
  /\ pc = "default"
  /\ IF defaultOutputDevice \in 0 .. (Len(devices) - 1)
     THEN /\ default_speakers' = DeviceInfo(defaultOutputDevice)
          /\ pc' = "resolve"
          /\ UNCHANGED << capture_result, raised, p_state >>
     ELSE /\ ExceptException("Invalid device info")
          /\ p_state' = Terminated(p_state)
          /\ UNCHANGED default_speakers
  /\ UNCHANGED << platformVars, ep_pc, scanned, wave_file, stream, late_write,
                  disk, transcribeVars, response >>

\* if not isLoopbackDevice: for ... break / else: return not found
ResolveDevice ==
  /\ pc = "resolve"
  /\ IF NeedsScan(default_speakers)
     THEN LET r == ScanLoopbacks(default_speakers, LoopbackDevices) IN
          /\ scanned' = r.consumed
          /\ IF r.found
             THEN /\ default_speakers' = r.dev
                  /\ pc' = "wave_open"
                  /\ UNCHANGED << capture_result, p_state >>
             ELSE /\ capture_result' = [error |-> "Default loopback output device not found"]
                  /\ p_state' = Terminated(p_state)
                  /\ pc' = "returned"
                  /\ UNCHANGED default_speakers
     ELSE /\ pc' = "wave_open"
          /\ UNCHANGED << default_speakers, scanned, capture_result, p_state >>
  /\ UNCHANGED << platformVars, ep_pc, wave_file, stream, late_write, disk,
                  raised, transcribeVars, response >>

\* wave_file = wave.open(filename, 'wb'); setnchannels; setsampwidth; setframerate.
\* wave.open can fail; setnchannels rejects a channel count below 1.
WaveOpen ==
  /\ pc = "wave_open"
  /\ \E ok \in BOOLEAN :
       IF ok
       THEN /\ wave_file' = [ state |-> "open",
                              nchannels |-> default_speakers.maxInputChannels,
                              sampwidth |-> 2,
                              framerate |-> default_speakers.defaultSampleRate,
                              nframes |-> 0 ]
            /\ disk' = "partial"
            /\ IF default_speakers.maxInputChannels >= 1
               THEN /\ pc' = "stream_open"
                    /\ UNCHANGED << capture_result, raised, p_state >>
               ELSE /\ ExceptException("bad # of channels")
                    /\ p_state' = Terminated(p_state)
       ELSE /\ ExceptException("cannot open output file")
            /\ p_state' = Terminated(p_state)
            /\ UNCHANGED << wave_file, disk >>
  /\ UNCHANGED << platformVars, ep_pc, default_speakers, scanned, stream,
                  late_write, transcribeVars, response >>

\* with p.open(format=paInt16, channels=..., rate=..., input_device_index=...,
\* stream_callback=callback) as stream: the stream starts or p.open raises.
\* Nothing on the failure path closes wave_file.
StreamOpen ==
  /\ pc = "stream_open"
  /\ \E ok \in BOOLEAN :
       IF ok
       THEN /\ stream' = [ state |-> "open",
                           channels |-> default_speakers.maxInputChannels,
                           rate |-> default_speakers.defaultSampleRate,
                           input_device_index |-> default_speakers.index ]
            /\ pc' = "sleep"
            /\ UNCHANGED << capture_result, raised, p_state >>
       ELSE /\ ExceptException("cannot open input stream")
            /\ p_state' = Terminated(p_state)
            /\ UNCHANGED stream
  /\ UNCHANGED << platformVars, ep_pc, default_speakers, scanned, wave_file,
                  late_write, disk, transcribeVars, response >>

\* def callback(in_data, ...): wave_file.writeframes(in_data), run by the
\* platform's thread whenever the open stream has a buffer ready.
callback ==
  /\ stream # None
  /\ stream.state = "open"
  /\ IF wave_file.state = "open"
     THEN /\ wave_file.nframes < MaxFrames
          /\ wave_file' = [wave_file EXCEPT !.nframes = @ + 1]
          /\ UNCHANGED late_write
     ELSE /\ ~late_write
          /\ late_write' = TRUE
          /\ UNCHANGED wave_file
  /\ UNCHANGED << platformVars, ep_pc, pc, p_state, default_speakers, scanned,
                  stream, disk, capture_result, raised, transcribeVars, response >>

\* time.sleep(duration): returns after the wait, or raises ValueError for a
\* negative duration; the exception leaves both with blocks, wave_file stays open.
Sleep ==
  /\ pc = "sleep"
  /\ IF duration >= 0
     THEN /\ pc' = "stream_exit"
          /\ UNCHANGED << stream, capture_result, raised, p_state >>
     ELSE /\ stream' = StreamExited(stream)
          /\ p_state' = Terminated(p_state)
          /\ ExceptException("sleep length must be non-negative")
  /\ UNCHANGED << platformVars, ep_pc, default_speakers, scanned, wave_file,
                  late_write, disk, transcribeVars, response >>

\* The end of the stream's with block that leaves the stream running.
StreamExitNoClose ==
  /\ pc = "stream_exit"
  /\ pc' = "wave_close"
  /\ UNCHANGED << platformVars, ep_pc, p_state, default_speakers, scanned,
                  wave_file, stream, late_write, disk, capture_result, raised,
                  transcribeVars, response >>

\* Normal end of  with p.open(...) as stream:  the stream is closed.
StreamExit ==
  /\ pc = "stream_exit"
  /\ stream' = StreamExited(stream)
  /\ pc' = "wave_close"
  /\ UNCHANGED << platformVars, ep_pc, p_state, default_speakers, scanned,
                  wave_file, late_write, disk, capture_result, raised,
                  transcribeVars, response >>

\* The success path without wave_file.close().
WaveCloseSkipped ==
  /\ pc = "wave_close"
  /\ pc' = "return_success"
  /\ UNCHANGED << platformVars, ep_pc, p_state, default_speakers, scanned,
                  wave_file, stream, late_write, disk, capture_result, raised,
                  transcribeVars, response >>

\* wave_file.close(): the header is patched, the file flushed and closed.
WaveClose ==
  /\ pc = "wave_close"
  /\ wave_file' = [wave_file EXCEPT !.state = "closed"]
  /\ disk' = "finalized"
  /\ pc' = "return_success"
  /\ UNCHANGED << platformVars, ep_pc, p_state, default_speakers, scanned,
                  stream, late_write, capture_result, raised, transcribeVars,
                  response >>

\* return {"success": True, "filename": filename, "filepath": abspath(filename)}
ReturnSuccess ==
  /\ pc = "return_success"
  /\ capture_result' = [ success |-> TRUE,
                         filename |-> Filename(TrackName),
                         filepath |-> Abspath(Filename(TrackName)) ]
  /\ p_state' = Terminated(p_state)
  /\ pc' = "returned"
  /\ UNCHANGED << platformVars, ep_pc, default_speakers, scanned, wave_file,
                  stream, late_write, disk, raised, transcribeVars, response >>

(* ---------------------------------------------------------------------- *)
(* transcribe_audio                                                        *)
(* ---------------------------------------------------------------------- *)

\* What the recognizer can do with a readable file.
TranscribeOutcomes == {"text", "unknown_value", "request_error", "unreadable"}

\* os.path.exists(path): the only file the model knows is the capture's output.
PathExists(path) == path = Abspath(Filename(TrackName)) /\ disk # "absent"

\* AudioService.transcribe_audio: every failure becomes an error dictionary.
transcribe_audio(audio_file_path, outcome) ==
  IF ~PathExists(audio_file_path)
  THEN [error |-> "Audio file not found: " \o audio_file_path]
  ELSE IF outcome = "text"
  THEN [success |-> TRUE, transcription |-> "hello world"]
  ELSE IF outcome = "unknown_value"
  THEN [error |-> "Google Speech Recognition could not understand the audio"]
  ELSE IF outcome = "request_error"
  THEN [error |-> "Google Speech Recognition request failed: timeout"]
  ELSE [error |-> "Transcription failed: file does not start with RIFF id"]

(* ---------------------------------------------------------------------- *)
(* Flask endpoints                                                         *)
(* ---------------------------------------------------------------------- *)

\* data = request.json; data.get(...): a request without a JSON body raises
\* and is answered 400; otherwise capture_audio is called.
EpReceive ==
  /\ ep_pc = "idle"
  /\ \E has_json \in BOOLEAN :
       IF has_json
       THEN /\ ep_pc' = "in_capture"
            /\ pc' = "pyaudio"
            /\ UNCHANGED response
       ELSE /\ ep_pc' = "responded"
            /\ response' = [ status |-> 400,
                             body |-> [error |-> "Request processing failed: no JSON body"] ]
            /\ UNCHANGED pc
  /\ UNCHANGED << platformVars, p_state, default_speakers, scanned, wave_file,
                  stream, late_write, disk, capture_result, raised,
                  transcribeVars >>

\* The combined endpoint without the  if "error" in capture_result  check.
EpAfterCaptureNoCheck ==
  /\ ep_pc = "in_capture"
  /\ pc = "returned"
  /\ ep_pc' = "transcribe"
  /\ UNCHANGED << platformVars, pc, p_state, default_speakers, scanned,
                  wave_file, stream, late_write, disk, capture_result, raised,
                  transcribeVars, response >>

\* capture_and_transcribe_endpoint after capture_audio returned:
\* if "error" in capture_result: return jsonify(capture_result), 500
EpAfterCapture ==
  /\ ep_pc = "in_capture"
  /\ pc = "returned"
  /\ IF raised
     THEN /\ response' = [ status |-> 400,
                           body |-> [error |-> "Request processing failed: capture_audio raised"] ]
          /\ ep_pc' = "responded"
     ELSE IF "error" \in DOMAIN capture_result
     THEN /\ response' = [status |-> 500, body |-> capture_result]
          /\ ep_pc' = "responded"
     ELSE /\ ep_pc' = "transcribe"
          /\ UNCHANGED response
  /\ UNCHANGED << platformVars, pc, p_state, default_speakers, scanned,
                  wave_file, stream, late_write, disk, capture_result, raised,
                  transcribeVars >>

\* transcribe_result = audio_service.transcribe_audio(capture_result["filepath"], language)
\* A capture_result without "filepath" raises KeyError, answered 400.
Transcribe ==
  /\ ep_pc = "transcribe"
  /\ IF "filepath" \in DOMAIN capture_result
     THEN \E outcome \in TranscribeOutcomes :
            /\ transcribe_calls' = transcribe_calls + 1
            /\ transcribe_arg' = capture_result.filepath
            /\ transcribe_result' = transcribe_audio(capture_result.filepath, outcome)
            /\ ep_pc' = "after_transcribe"
            /\ UNCHANGED response
     ELSE /\ response' = [ status |-> 400,
                           body |-> [error |-> "Request processing failed: 'filepath'"] ]
          /\ ep_pc' = "responded"
          /\ UNCHANGED transcribeVars
  /\ UNCHANGED << platformVars, pc, p_state, default_speakers, scanned,
                  wave_file, stream, late_write, disk, capture_result, raised >>

\* The combined endpoint calling transcribe_audio a second time after a failure.
EpAfterTranscribeRetry ==
  /\ ep_pc = "after_transcribe"
  /\ IF "error" \in DOMAIN transcribe_result
     THEN IF transcribe_calls < 2
          THEN /\ ep_pc' = "transcribe"
               /\ UNCHANGED response
          ELSE /\ response' = [status |-> 500, body |-> transcribe_result]
               /\ ep_pc' = "responded"
     ELSE /\ response' = [ status |-> 200,
                           body |-> [ success |-> TRUE,
                                      audio_file |-> capture_result.filename,
                                      filepath |-> capture_result.filepath,
                                      transcription |-> transcribe_result.transcription ] ]
          /\ ep_pc' = "responded"
  /\ UNCHANGED << platformVars, pc, p_state, default_speakers, scanned,
                  wave_file, stream, late_write, disk, capture_result, raised,
                  transcribeVars >>

\* if "error" in transcribe_result: return jsonify(transcribe_result), 500
\* else the combined success result.
EpAfterTranscribe ==
  /\ ep_pc = "after_transcribe"
  /\ IF "error" \in DOMAIN transcribe_result
     THEN response' = [status |-> 500, body |-> transcribe_result]
     ELSE response' = [ status |-> 200,
                        body |-> [ success |-> TRUE,
                                   audio_file |-> capture_result.filename,
                                   filepath |-> capture_result.filepath,
                                   transcription |-> transcribe_result.transcription ] ]
  /\ ep_pc' = "responded"
  /\ UNCHANGED << platformVars, pc, p_state, default_speakers, scanned,
                  wave_file, stream, late_write, disk, capture_result, raised,
                  transcribeVars >>

\* The file_path values a later /cleanup request can carry.
CleanupPaths == {"", Abspath(Filename(TrackName))}

\* cleanup_files, served after the first request was answered: os.remove of
\* an existing path; on Windows removing a file that is still open fails.
cleanup_files ==
  /\ ep_pc = "responded"
  /\ \E file_path \in CleanupPaths :
       IF file_path # "" /\ PathExists(file_path)
       THEN IF wave_file # None /\ wave_file.state = "open"
            THEN /\ response' = [ status |-> 500,
                                  body |-> [error |-> "Cleanup failed: file is in use"] ]
                 /\ UNCHANGED disk
            ELSE /\ disk' = "absent"
                 /\ response' = [ status |-> 200,
                                  body |-> [ success |-> TRUE,
                                             message |-> "File " \o file_path \o " deleted" ] ]
       ELSE /\ response' = [ status |-> 400,
                             body |-> [error |-> "File not found or path not provided"] ]
            /\ UNCHANGED disk
  /\ ep_pc' = "cleaned"
  /\ UNCHANGED << platformVars, pc, p_state, default_speakers, scanned,
                  wave_file, stream, late_write, capture_result, raised,
                  transcribeVars >>

(* ---------------------------------------------------------------------- *)
(* Specification                                                           *)
(* ---------------------------------------------------------------------- *)

Next ==
  \/ EpReceive
  \/ PyAudioInit
  \/ GetWasapiInfo
  \/ GetDefaultSpeakers
  \/ ResolveDevice
  \/ WaveOpen
  \/ StreamOpen
  \/ callback
  \/ Sleep
  \/ StreamExit
  \/ WaveClose
  \/ ReturnSuccess
  \/ EpAfterCapture
  \/ Transcribe
  \/ EpAfterTranscribe
  \/ cleanup_files

Spec == Init /\ [][Next]_vars

(* ---------------------------------------------------------------------- *)
(* Properties                                                              *)
(* ---------------------------------------------------------------------- *)

\* needle occurs in hay at some offset (stated without the scan of StrIn).
Contains(needle, hay) ==
  \E k \in 1 .. Len(hay) :
    /\ k + Len(needle) - 1 <= Len(hay)
    /\ SubSeq(hay, k, k + Len(needle) - 1) = needle

\* The platform reports a default output device.
HasDefault == defaultOutputDevice >= 0

\* The platform's record of the default output device.
DefaultRecord == devices[defaultOutputDevice + 1]

\* Position i of the device list is a loopback device whose name contains
\* the default device's name.
IsMatch(i) ==
  /\ devices[i].isLoopbackDevice
  /\ Contains(DefaultRecord.name, devices[i].name)

\* capture_audio is past its device resolution with a device in hand.
Resolved ==
  /\ pc \notin {"idle", "pyaudio", "wasapi", "default", "resolve"}
  /\ default_speakers # None

\* The wave header and the stream parameters are those of device d.
CapturesFrom(d) ==
  /\ wave_file # None =>
       /\ wave_file.nchannels = d.maxInputChannels
       /\ wave_file.framerate = d.defaultSampleRate
  /\ stream # None =>
       /\ stream.input_device_index = d.index
       /\ stream.channels = d.maxInputChannels
       /\ stream.rate = d.defaultSampleRate

\* The dictionary is a success result carrying a path.
IsSuccess(r) == DOMAIN r = {"success", "filename", "filepath"} /\ r.success

\* The dictionary is a failure result carrying a message.
IsFailure(r) == DOMAIN r = {"error"}

\* C1: when the default output device already has its loopback flag set, the
\* loopback list is never consulted and the device captured from (index,
\* channel count and sample rate of the stream and of the wave header) is
\* that default device.
C1_DefaultLoopbackUsed ==
  (HasDefault /\ DefaultRecord.isLoopbackDevice) =>
    /\ scanned = 0
    /\ default_speakers # None => default_speakers = DeviceInfo(defaultOutputDevice)
    /\ CapturesFrom(DeviceInfo(defaultOutputDevice))

\* C1 witness: the stream runs on a loopback default device although an
\* earlier loopback device of another format also carries a matching name.
C1_Witness ==
  /\ HasDefault
  /\ DefaultRecord.isLoopbackDevice
  /\ stream # None
  /\ stream.state = "open"
  /\ \E i \in 1 .. defaultOutputDevice :
       /\ IsMatch(i)
       /\ devices[i].format # DefaultRecord.format

\* C2: when the default output device is no loopback device and some
\* loopback device's name contains its name, the device captured from is the
\* first such loopback device in enumeration order.
C2_FirstMatchSelected ==
  (HasDefault /\ ~DefaultRecord.isLoopbackDevice /\ Resolved
     /\ \E i \in 1 .. Len(devices) : IsMatch(i)) =>
    \E i \in 1 .. Len(devices) :
      /\ IsMatch(i)
      /\ \A j \in 1 .. (i - 1) : ~IsMatch(j)
      /\ default_speakers = DeviceInfo(i - 1)
      /\ CapturesFrom(DeviceInfo(i - 1))

\* C2 witness: the stream runs on the first of two matching loopback devices
\* of different formats, and that first match is not the first device.
C2_Witness ==
  /\ HasDefault
  /\ ~DefaultRecord.isLoopbackDevice
  /\ stream # None
  /\ stream.state = "open"
  /\ \E i, j \in 2 .. Len(devices) :
       /\ i < j
       /\ IsMatch(i)
       /\ IsMatch(j)
       /\ ~IsMatch(1)
       /\ devices[i].format # devices[j].format
       /\ stream.input_device_index = i - 1

\* C3: when the default output device is no loopback device and no loopback
\* device's name contains its name, capture_audio never returns success, and
\* once it has read the default device it returns the failure
\* "Default loopback output device not found".
C3_NoMatchNotFound ==
  (HasDefault /\ ~DefaultRecord.isLoopbackDevice /\ pc = "returned"
     /\ \A i \in 1 .. Len(devices) : ~IsMatch(i)) =>
    /\ ~IsSuccess(capture_result)
    /\ default_speakers # None =>
         capture_result = [error |-> "Default loopback output device not found"]

\* C3 witness: capture_audio returned after scanning a loopback device whose
\* name does not contain the default device's name.
C3_Witness ==
  /\ HasDefault
  /\ ~DefaultRecord.isLoopbackDevice
  /\ pc = "returned"
  /\ default_speakers # None
  /\ scanned > 0
  /\ \A i \in 1 .. Len(devices) : ~IsMatch(i)

\* C4: the stream is closed before the wave file is closed, so no callback
\* writes to the wave file after it was finalized.
C4_StreamClosedBeforeFinalize ==
  /\ ~late_write
  /\ (wave_file # None /\ wave_file.state = "closed") => stream.state = "closed"

\* C4 witness: the wave file was finalized after callbacks wrote frames.
C4_Witness ==
  /\ wave_file # None
  /\ wave_file.state = "closed"
  /\ wave_file.nframes = MaxFrames
  /\ stream.state = "closed"

\* C5: a success result exists only when the wave file is closed and the
\* stream no longer delivers frames.
C5_SuccessOnlyAfterFinalize ==
  "success" \in DOMAIN capture_result =>
    /\ wave_file # None
    /\ wave_file.state = "closed"
    /\ stream # None
    /\ stream.state = "closed"
    /\ ep_pc # "cleaned" => disk = "finalized"

\* C5 witness: capture_audio returned success with frames in the file.
C5_Witness ==
  /\ pc = "returned"
  /\ IsSuccess(capture_result)
  /\ wave_file.nframes > 0
  /\ disk = "finalized"

\* C6: when capture_audio returns a failure after the wave file was created,
\* the wave file's handle is closed.
C6_HandleReleasedOnFailure ==
  (pc = "returned" /\ "error" \in DOMAIN capture_result /\ wave_file # None) =>
    wave_file.state = "closed"

\* C7: on every exit of capture_audio on which the stream was opened, the
\* stream is closed.
C7_StreamClosedOnExit ==
  (pc = "returned" /\ stream # None) => stream.state = "closed"

\* C7 witness: capture_audio returned a failure after the stream was opened.
C7_Witness ==
  /\ pc = "returned"
  /\ stream # None
  /\ IsFailure(capture_result)

\* C8: no exception leaves capture_audio, and every returned value is either
\* a success result with a path or a failure result with a message.
C8_AlwaysReturnsResult ==
  /\ ~raised
  /\ pc = "returned" =>
       /\ IsSuccess(capture_result) \/ IsFailure(capture_result)
       /\ ~(IsSuccess(capture_result) /\ IsFailure(capture_result))

\* C8 witness: an exception of p.open was turned into a failure result.
C8_Witness ==
  /\ pc = "returned"
  /\ capture_result = [error |-> "Audio capture failed: cannot open input stream"]

\* C9: transcribe_audio is called only after capture_audio returned success,
\* with the path of the finalized wave file; after a capture failure it is
\* never called and the response carries the capture failure.
C9_TranscribeOnlyAfterSuccess ==
  /\ transcribe_calls > 0 =>
       /\ IsSuccess(capture_result)
       /\ transcribe_arg = capture_result.filepath
       /\ wave_file.state = "closed"
  /\ ep_pc = "after_transcribe" => disk = "finalized"
  /\ (pc = "returned" /\ ~IsSuccess(capture_result)) =>
       /\ transcribe_calls = 0
       /\ ep_pc \notin {"transcribe", "after_transcribe"}
       /\ ep_pc = "responded" => response = [status |-> 500, body |-> capture_result]

\* C9 witness: transcribe_audio has just been called on a captured file.
C9_Witness ==
  /\ ep_pc = "after_transcribe"
  /\ transcribe_calls = 1
  /\ transcribe_arg = Abspath(Filename(TrackName))

\* C10: when capture succeeds and transcribe_audio reports a failure, the
\* response carries that failure unchanged, transcribe_audio was called
\* exactly once, and the captured file is still on disk.
C10_TranscribeFailureSurfaced ==
  /\ transcribe_calls <= 1
  /\ (ep_pc = "responded" /\ transcribe_calls > 0
        /\ "error" \in DOMAIN transcribe_result) =>
       /\ response = [status |-> 500, body |-> transcribe_result]
       /\ transcribe_calls = 1
       /\ disk # "absent"

\* C10 witness: the response of the combined endpoint carries the
\* recognizer's "could not understand" failure.
C10_Witness ==
  /\ ep_pc = "responded"
  /\ transcribe_calls = 1
  /\ response.body = [error |-> "Google Speech Recognition could not understand the audio"]

====
